---- MODULE Spec2Model ----
(***************************************************************************)
(* The portfolio optimizer script (src/app.py): one top-to-bottom run of   *)
(* the script per user interaction.  Sidebar widgets produce the inputs,   *)
(* the button guards the download / fill / estimate / solve / clean /      *)
(* render pipeline inside one try/except, and the footer closes the page.  *)
(*                                                                         *)
(* Numbers are fixed point.  A weight is an integer number of millionths   *)
(* (ONE is the weight 1.0).  Expected returns, covariances and the         *)
(* risk-free rate are integers in hundredths.  A product of two weights    *)
(* does not fit a machine integer, so it is kept as a pair <<hi, lo>> that *)
(* stands for hi * ONE + lo with 0 <= lo < ONE.                            *)
(***************************************************************************)
EXTENDS Integers, Sequences, FiniteSets, TLC

VARIABLES
    pc,           \* position of the script
    tickers,      \* line 23: the parsed ticker list
    risk_level,   \* line 19: value of the select_slider
    max_weight,   \* line 20: value of the slider, an integer percentage
    pressed,      \* line 26: what st.sidebar.button returned in this run
    data,         \* line 30: the table as downloaded; never read after line 31
    stock_data,   \* lines 31-33: ticker -> column of prices, 0 is a missing value
    mu,           \* line 36: ticker -> expected return (hundredths)
    S,            \* line 37: <<ticker, ticker>> -> covariance (hundredths)
    nan,          \* tickers whose estimates are NaN
    ef,           \* line 40: the EfficientFrontier object
    weights,      \* line 51: the cleaned weights, ticker -> millionths
    perf,         \* line 75: the three performance scalars
    display,      \* the elements rendered on the page by this run, in order
    calls,        \* the external calls made by this run, in order
    rf            \* default risk-free rate of the installed optimizer library

vars == <<pc, tickers, risk_level, max_weight, pressed, data, stock_data, mu, S, nan,
          ef, weights, perf, display, calls, rf>>

(***************************************************************************)
(* Bounds of the model.                                                    *)
(***************************************************************************)
\* number of dates in a price table
MaxDates == 3
\* largest number of requested tickers
MaxTickers == 3
\* largest number of assets in the tables of the gap-fill specification
MaxFillAssets == 2

(***************************************************************************)
(* Fixed-point scale and the defaults of ef.clean_weights() (line 51).     *)
(***************************************************************************)
ONE == 10^6
\* clean_weights(cutoff=1e-4, rounding=5): the number of decimals kept
ROUNDING == 5
RoundStep == 10^(6 - ROUNDING)
Cutoff == ONE \div 10^4

Abs(x) == IF x < 0 THEN -x ELSE x

Range(f) == {f[i] : i \in DOMAIN f}

RECURSIVE SumOver(_, _)
\* the sum of f over the finite set D
SumOver(D, f) ==
    IF D = {} THEN 0
    ELSE LET d == CHOOSE x \in D : TRUE IN f[d] + SumOver(D \ {d}, f)

\* a * b for 0 <= a <= 2 * ONE and |b| <= 10^8, as the pair <<hi, lo>>
Mul2(a, b) ==
    LET ah == a \div 1000
        al == a % 1000
        bh == b \div 1000
        bl == b % 1000
        m == ah * bl + al * bh
        rest == (m % 1000) * 1000 + al * bl
    IN <<ah * bh + (m \div 1000) + (rest \div ONE), rest % ONE>>

\* <<hi, lo>> with lo brought back into 0 .. ONE - 1
Norm2(hi, lo) == <<hi + (lo \div ONE), lo % ONE>>

\* p < q for two normalised pairs
Less2(p, q) == p[1] < q[1] \/ (p[1] = q[1] /\ p[2] < q[2])

RECURSIVE IsqrtBetween(_, _, _)
\* the largest v in lo .. hi with v * v <= x (lo * lo <= x is given)
IsqrtBetween(x, lo, hi) ==
    IF lo >= hi THEN lo
    ELSE LET mid == (lo + hi + 1) \div 2
         IN IF mid * mid <= x THEN IsqrtBetween(x, mid, hi)
            ELSE IsqrtBetween(x, lo, mid - 1)

\* floor of the square root of x, 0 <= x <= 10^9
Isqrt(x) == IsqrtBetween(x, 0, 31622)

(***************************************************************************)
(* Lines 32-33: DataFrame.ffill and DataFrame.bfill, column by column.     *)
(* A column is a sequence of prices over the dates; 0 is a missing value.  *)
(***************************************************************************)
Dates == 1 .. MaxDates

RECURSIVE LastSeen(_, _)
\* the last observed price at or before date i, 0 when there is none
LastSeen(col, i) ==
    IF i < 1 THEN 0
    ELSE IF col[i] # 0 THEN col[i] ELSE LastSeen(col, i - 1)

RECURSIVE NextSeen(_, _)
\* the first observed price at or after date i, 0 when there is none
NextSeen(col, i) ==
    IF i > Len(col) THEN 0
    ELSE IF col[i] # 0 THEN col[i] ELSE NextSeen(col, i + 1)

\* stock_data.ffill(): a missing cell takes the last observation before it
Ffill(table) ==
    [t \in DOMAIN table |-> [i \in DOMAIN table[t] |-> LastSeen(table[t], i)]]

\* a backward fill that carries observations forward instead
BfillAsFfill(table) == Ffill(table)

\* stock_data.bfill(): a missing cell takes the first observation after it
Bfill(table) ==
    [t \in DOMAIN table |-> [i \in DOMAIN table[t] |-> NextSeen(table[t], i)]]

HasMissing(col) == \E i \in DOMAIN col : col[i] = 0

IsConstant(col) == \A i, j \in DOMAIN col : col[i] = col[j]

(***************************************************************************)
(* Inputs.  The universe is the default text of the ticker box (line 18).  *)
(***************************************************************************)
Universe == <<"GS", "JPM", "MS", "BLK", "SPY">>

Index(t) == CHOOSE i \in DOMAIN Universe : Universe[i] = t

TickerLists == {SubSeq(Universe, 1, k) : k \in 1 .. MaxTickers}

\* line 19: options of the select_slider
RiskLevels == {"Low", "Medium", "High"}

\* line 20: slider values 10 .. 100 the model draws from
MaxWeightValues == {10, 40, 50, 100}

\* versions of the optimizer library default the risk-free rate to 0.02 or 0
RiskFreeRates == {0, 2}

\* the columns a provider answer is made of in the pipeline: complete,
\* leading gap (one constant price is left), no observation at all
FullColumn == [i \in Dates |-> IF i = 1 THEN 1 ELSE 2]
LeadingGapColumn == [i \in Dates |-> IF i = 1 THEN 0 ELSE 2]
EmptyColumn == [i \in Dates |-> 0]

ColumnShapes == {FullColumn, LeadingGapColumn, EmptyColumn}

\* line 30-31: the tables yf.download(...)['Close'] can hold for the tickers
ProviderTables(tl) == [Range(tl) -> ColumnShapes]

(***************************************************************************)
(* Lines 36-37: the estimates.  The statistics of a varying price series   *)
(* are drawn from a set of scenarios (hundredths); a constant series has   *)
(* return 0 and covariance 0 with everything; a series that still has a    *)
(* missing value gives NaN estimates.                                      *)
(***************************************************************************)
Scenarios == {
    [mu |-> <<10, 15, 8, 12, 9>>,
     S  |-> << <<4, 0, 0, 0, 0>>, <<0, 9, 0, 0, 0>>, <<0, 0, 1, 0, 0>>,
               <<0, 0, 0, 6, 0>>, <<0, 0, 0, 0, 2>> >>],
    [mu |-> <<10, 10, 10, 10, 10>>,
     S  |-> << <<4, 1, 1, 1, 1>>, <<1, 4, 1, 1, 1>>, <<1, 1, 4, 1, 1>>,
               <<1, 1, 1, 4, 1>>, <<1, 1, 1, 1, 4>> >>],
    [mu |-> <<-5, -3, -8, -2, -6>>,
     S  |-> << <<25, 0, 0, 0, 0>>, <<0, 1, 0, 0, 0>>, <<0, 0, 9, 0, 0>>,
               <<0, 0, 0, 4, 0>>, <<0, 0, 0, 0, 16>> >>],
    [mu |-> <<12, 3, 6, 9, 4>>,
     S  |-> << <<4, -1, 1, 0, 0>>, <<-1, 2, 0, 0, 0>>, <<1, 0, 6, 0, 0>>,
               <<0, 0, 0, 5, 0>>, <<0, 0, 0, 0, 3>> >>] }

\* expected_returns.mean_historical_return(stock_data)
MeanHistoricalReturn(table, sc) ==
    [t \in DOMAIN table |->
        IF HasMissing(table[t]) \/ IsConstant(table[t]) THEN 0 ELSE sc.mu[Index(t)]]

\* risk_models.sample_cov(stock_data)
SampleCov(table, sc) ==
    [p \in (DOMAIN table) \X (DOMAIN table) |->
        IF \E k \in 1 .. 2 : HasMissing(table[p[k]]) \/ IsConstant(table[p[k]])
        THEN 0 ELSE sc.S[Index(p[1])][Index(p[2])]]

\* the tickers whose estimates are NaN
NanTickers(table) == {t \in DOMAIN table : HasMissing(table[t])}

(***************************************************************************)
(* Lines 40-49: the EfficientFrontier problem and its three objectives.    *)
(* The convex solver is modelled as an exact optimizer over a finite grid  *)
(* of the feasible polytope { w : 0 <= w <= u, sum(w) = 1 }: all weights   *)
(* but the last are grid levels, the last one makes the sum exactly ONE.   *)
(* Among equally good grid points the solver may return any.               *)
(***************************************************************************)
Levels == {0, 50, 333333, 400000, 500000, 600000, 666667, 999950, 1000000}

\* line 42: w <= max_weight/100, in millionths
UpperBound(maxw) == maxw * (ONE \div 100)

\* the grid points with the given levels for all weights but the last
GridPoints(tl, levels) ==
    LET head == {tl[i] : i \in 1 .. Len(tl) - 1}
        last == tl[Len(tl)]
    IN {[t \in Range(tl) |-> IF t = last THEN ONE - SumOver(head, h) ELSE h[t]] :
           h \in [head -> levels]}

\* the grid points of a problem built without the constraint of line 42
FeasibleIgnoringCap(tl, maxw) ==
    {w \in GridPoints(tl, Levels) : \A t \in DOMAIN w : 0 <= w[t]}

\* the grid points that satisfy the constraints of lines 40-42
Feasible(tl, maxw) ==
    {w \in GridPoints(tl, {l \in Levels : l <= UpperBound(maxw)}) :
        \A t \in DOMAIN w : 0 <= w[t] /\ w[t] <= UpperBound(maxw)}

\* w . mu, in units of 1e-8
PortfolioReturn(w, m) == SumOver(DOMAIN w, [t \in DOMAIN w |-> w[t] * m[t]])

\* (S w)[t], in units of 1e-8
CovTimes(w, cov, t) == SumOver(DOMAIN w, [u \in DOMAIN w |-> cov[<<t, u>>] * w[u]])

\* w' S w as a pair, in units of 1e-14 (the hi part in units of 1e-8)
PortfolioVariance(w, cov) ==
    Norm2(SumOver(DOMAIN w, [t \in DOMAIN w |-> Mul2(w[t], CovTimes(w, cov, t))[1]]),
          SumOver(DOMAIN w, [t \in DOMAIN w |-> Mul2(w[t], CovTimes(w, cov, t))[2]]))

\* sqrt(w' S w), in units of 1e-4
PortfolioVolatility(w, cov) == Isqrt(PortfolioVariance(w, cov)[1])

\* (ret - r) / vol as numpy computes it: a division by zero gives inf or nan
SharpeRatio(ret, vol, r) ==
    LET excess == ret - r * (ONE \div 100)
    IN IF vol # 0 THEN [kind |-> "finite", milli |-> excess \div (vol * 10)]
       ELSE IF excess > 0 THEN [kind |-> "inf", milli |-> 0]
       ELSE IF excess < 0 THEN [kind |-> "-inf", milli |-> 0]
       ELSE [kind |-> "nan", milli |-> 0]

\* a > b for two Sharpe ratios, neither of them nan
SharpeGreater(a, b) ==
    IF a.kind = "finite" /\ b.kind = "finite" THEN a.milli > b.milli
    ELSE (a.kind = "inf" /\ b.kind # "inf") \/ (b.kind = "-inf" /\ a.kind # "-inf")

\* whether key a is preferred to key b: a smaller pair ("least"), a larger
\* pair ("greatest") or a greater Sharpe ratio ("sharpe")
Beats(sense, a, b) ==
    IF sense = "least" THEN Less2(a, b)
    ELSE IF sense = "greatest" THEN Less2(b, a)
    ELSE SharpeGreater(a, b)

\* the members of the set K of pairs <<w, key>> that no other member beats
Best(K, sense) ==
    {p[1] : p \in {p \in K : \A q \in K : ~Beats(sense, q[2], p[2])}}

\* an objective that maximises the variance instead of minimising it
MaxVolatility(C, cov) ==
    Best({<<w, PortfolioVariance(w, cov)>> : w \in C}, "greatest")

\* line 45: ef.min_volatility(), the feasible points of least variance
MinVolatility(C, cov) ==
    Best({<<w, PortfolioVariance(w, cov)>> : w \in C}, "least")

\* line 47: ef.max_sharpe(); its transformed problem needs an excess return > 0
MaxSharpe(C, m, cov, r) ==
    LET G == {w \in C : PortfolioReturn(w, m) > r * (ONE \div 100)}
    IN Best({<<w, SharpeRatio(PortfolioReturn(w, m), PortfolioVolatility(w, cov), r)>> :
                w \in G}, "sharpe")

\* line 49: ef.max_quadratic_utility(risk_aversion=1): w.mu - w'Sw / 2
MaxQuadraticUtility(C, m, cov) ==
    LET Utility(w) ==
            LET var == PortfolioVariance(w, cov)
            IN Norm2(2 * PortfolioReturn(w, m) - var[1], -var[2])
    IN Best({<<w, Utility(w)>> : w \in C}, "greatest")

\* a dispatch with the branches of Low and High exchanged
ObjectiveSwapped(level) ==
    IF level = "Low" THEN "max_sharpe"
    ELSE IF level = "High" THEN "min_volatility"
    ELSE "max_quadratic_utility"

\* lines 44-49: the objective the risk level selects
Objective(level) ==
    IF level = "Low" THEN "min_volatility"
    ELSE IF level = "High" THEN "max_sharpe"
    ELSE "max_quadratic_utility"

\* the weight vectors the selected objective may return; empty: it raises
Solutions(level, tl, maxw, m, cov, r) ==
    IF Objective(level) = "min_volatility" THEN MinVolatility(Feasible(tl, maxw), cov)
    ELSE IF Objective(level) = "max_sharpe" THEN MaxSharpe(Feasible(tl, maxw), m, cov, r)
    ELSE MaxQuadraticUtility(Feasible(tl, maxw), m, cov)

(***************************************************************************)
(* Line 51: ef.clean_weights(cutoff=1e-4, rounding=5).                     *)
(***************************************************************************)
\* np.round(x, 5): to the nearest multiple of 1e-5, a tie to the even one
RoundHalfEven(x) ==
    LET q == x \div RoundStep
        r == x % RoundStep
    IN IF 2 * r < RoundStep THEN q * RoundStep
       ELSE IF 2 * r > RoundStep THEN (q + 1) * RoundStep
       ELSE IF q % 2 = 0 THEN q * RoundStep ELSE (q + 1) * RoundStep

\* a cleaning that rounds and applies no cutoff
CleanWeightsNoCutoff(w) == [t \in DOMAIN w |-> RoundHalfEven(w[t])]

\* weights below the cutoff become 0, the others are rounded; no renormalising
CleanWeights(w) ==
    [t \in DOMAIN w |-> IF Abs(w[t]) < Cutoff THEN 0 ELSE RoundHalfEven(w[t])]

\* line 75: ef.portfolio_performance(), computed from the weights w
PortfolioPerformance(w, m, cov, r) ==
    LET ret == PortfolioReturn(w, m)
        vol == PortfolioVolatility(w, cov)
    IN [expected_return |-> ret, expected_volatility |-> vol,
        sharpe_ratio |-> SharpeRatio(ret, vol, r)]

(***************************************************************************)
(* The script.  Every run executes the file from line 1: the names of the  *)
(* previous run are gone and the page is built anew.                       *)
(***************************************************************************)
Unset == <<>>

NoEf == [built |-> FALSE, upper |-> 0, weights |-> Unset]

\* the statements inside the try block (lines 28-92), by position
TrySteps == {"download", "ffill", "bfill", "estimate", "construct", "solve", "clean",
             "render_table", "render_pie", "perf", "render_metrics", "render_chart"}

\* the external computation a position of the script calls
CallAt(step) ==
    IF step = "download" THEN <<"download">>
    ELSE IF step = "estimate" THEN <<"mean_historical_return", "sample_cov">>
    ELSE IF step = "solve" THEN <<Objective(risk_level)>>
    ELSE IF step = "clean" THEN <<"clean_weights">>
    ELSE IF step = "perf" THEN <<"portfolio_performance">>
    ELSE <<>>

Init ==
    /\ pc = "idle"
    /\ tickers = Unset
    /\ risk_level = "Medium"
    /\ max_weight = 40
    /\ pressed = FALSE
    /\ data = Unset
    /\ stock_data = Unset
    /\ mu = Unset
    /\ S = Unset
    /\ nan = {}
    /\ ef = NoEf
    /\ weights = Unset
    /\ perf = Unset
    /\ display = <<>>
    /\ calls = <<>>
    /\ rf \in RiskFreeRates

\* a rerun that keeps the names and the page of the run before it
RerunKeepingState ==
    /\ pc = "done"
    /\ pc' = "idle"
    /\ UNCHANGED <<tickers, risk_level, max_weight, pressed, data, stock_data, mu, S, nan,
                   ef, weights, perf, display, calls, rf>>

\* a user interaction makes the framework run the script again, from line 1
\* with none of the previous run's names and an empty page
Rerun ==
    /\ pc = "done"
    /\ pc' = "idle"
    /\ tickers' = Unset
    /\ pressed' = FALSE
    /\ data' = Unset
    /\ stock_data' = Unset
    /\ mu' = Unset
    /\ S' = Unset
    /\ nan' = {}
    /\ ef' = NoEf
    /\ weights' = Unset
    /\ perf' = Unset
    /\ display' = <<>>
    /\ calls' = <<>>
    /\ UNCHANGED <<risk_level, max_weight, rf>>

\* lines 1-23: the widgets return the user's current inputs
ScriptRun ==
    /\ pc = "idle"
    /\ \E tl \in TickerLists, lv \in RiskLevels, mw \in MaxWeightValues, b \in BOOLEAN :
          /\ tickers' = tl
          /\ risk_level' = lv
          /\ max_weight' = mw
          /\ pressed' = b
    /\ pc' = "button"
    /\ UNCHANGED <<data, stock_data, mu, S, nan, ef, weights, perf, display, calls, rf>>

\* a script that enters the pipeline whether or not the button was pressed
ButtonIgnored ==
    /\ pc = "button"
    /\ pc' = "download"
    /\ UNCHANGED <<tickers, risk_level, max_weight, pressed, data, stock_data, mu, S, nan,
                   ef, weights, perf, display, calls, rf>>

\* line 26: the pipeline runs only when the button was pressed
Button ==
    /\ pc = "button"
    /\ pc' = IF pressed THEN "download" ELSE "footer"
    /\ UNCHANGED <<tickers, risk_level, max_weight, pressed, data, stock_data, mu, S, nan,
                   ef, weights, perf, display, calls, rf>>

\* lines 30-31: data = yf.download(...); stock_data = data['Close']
Download ==
    /\ pc = "download"
    /\ data' \in ProviderTables(tickers)
    /\ stock_data' = data'
    /\ calls' = calls \o CallAt(pc)
    /\ pc' = "ffill"
    /\ UNCHANGED <<tickers, risk_level, max_weight, pressed, mu, S, nan, ef, weights,
                   perf, display, rf>>

\* line 32: stock_data.ffill(inplace=True)
ForwardFill ==
    /\ pc = "ffill"
    /\ stock_data' = Ffill(stock_data)
    /\ pc' = "bfill"
    /\ UNCHANGED <<tickers, risk_level, max_weight, pressed, data, mu, S, nan, ef, weights,
                   perf, display, calls, rf>>

\* line 33: stock_data.bfill(inplace=True)
BackwardFill ==
    /\ pc = "bfill"
    /\ stock_data' = Bfill(stock_data)
    /\ pc' = "estimate"
    /\ UNCHANGED <<tickers, risk_level, max_weight, pressed, data, mu, S, nan, ef, weights,
                   perf, display, calls, rf>>

\* lines 36-37: mu and S from the filled table
Estimate ==
    /\ pc = "estimate"
    /\ \E sc \in Scenarios :
          /\ mu' = MeanHistoricalReturn(stock_data, sc)
          /\ S' = SampleCov(stock_data, sc)
    /\ nan' = NanTickers(stock_data)
    /\ calls' = calls \o CallAt(pc)
    /\ pc' = "construct"
    /\ UNCHANGED <<tickers, risk_level, max_weight, pressed, data, stock_data, ef, weights,
                   perf, display, rf>>

\* lines 40-42: the problem with 0 <= w <= max_weight/100
Construct ==
    /\ pc = "construct"
    /\ ef' = [built |-> TRUE, upper |-> max_weight, weights |-> Unset]
    /\ pc' = "solve"
    /\ UNCHANGED <<tickers, risk_level, max_weight, pressed, data, stock_data, mu, S, nan,
                   weights, perf, display, calls, rf>>

\* lines 44-49: the selected objective returns; the solver sets ef.weights
Solve ==
    /\ pc = "solve"
    /\ nan = {}
    /\ \E w \in Solutions(risk_level, tickers, ef.upper, mu, S, rf) :
          ef' = [ef EXCEPT !.weights = w]
    /\ calls' = calls \o CallAt(pc)
    /\ pc' = "clean"
    /\ UNCHANGED <<tickers, risk_level, max_weight, pressed, data, stock_data, mu, S, nan,
                   weights, perf, display, rf>>

\* line 51: weights = ef.clean_weights(); ef.weights is left as it is
Clean ==
    /\ pc = "clean"
    /\ weights' = CleanWeights(ef.weights)
    /\ calls' = calls \o CallAt(pc)
    /\ pc' = "render_table"
    /\ UNCHANGED <<tickers, risk_level, max_weight, pressed, data, stock_data, mu, S, nan,
                   ef, perf, display, rf>>

\* lines 57-63: the allocation table goes on the page
RenderTable ==
    /\ pc = "render_table"
    /\ display' = Append(display, "allocation_table")
    /\ pc' = "render_pie"
    /\ UNCHANGED <<tickers, risk_level, max_weight, pressed, data, stock_data, mu, S, nan,
                   ef, weights, perf, calls, rf>>

\* lines 66-71: the pie chart goes on the page
RenderPie ==
    /\ pc = "render_pie"
    /\ display' = Append(display, "pie_chart")
    /\ pc' = "perf"
    /\ UNCHANGED <<tickers, risk_level, max_weight, pressed, data, stock_data, mu, S, nan,
                   ef, weights, perf, calls, rf>>

\* line 75: the optimizer object reports the performance of its own weights
PerformanceOfRun == PortfolioPerformance(ef.weights, mu, S, rf)

Performance ==
    /\ pc = "perf"
    /\ perf' = PerformanceOfRun
    /\ calls' = calls \o CallAt(pc)
    /\ pc' = "render_metrics"
    /\ UNCHANGED <<tickers, risk_level, max_weight, pressed, data, stock_data, mu, S, nan,
                   ef, weights, display, rf>>

\* lines 76-86: the metrics table goes on the page
RenderMetrics ==
    /\ pc = "render_metrics"
    /\ display' = Append(display, "metrics_table")
    /\ pc' = "render_chart"
    /\ UNCHANGED <<tickers, risk_level, max_weight, pressed, data, stock_data, mu, S, nan,
                   ef, weights, perf, calls, rf>>

\* lines 89-92: the normalised price chart goes on the page
RenderChart ==
    /\ pc = "render_chart"
    /\ display' = Append(display, "price_chart")
    /\ pc' = "footer"
    /\ UNCHANGED <<tickers, risk_level, max_weight, pressed, data, stock_data, mu, S, nan,
                   ef, weights, perf, calls, rf>>

\* a statement of the try block raises: control goes to line 94
Raise ==
    /\ pc \in TrySteps
    /\ calls' = calls \o CallAt(pc)
    /\ pc' = "except"
    /\ UNCHANGED <<tickers, risk_level, max_weight, pressed, data, stock_data, mu, S, nan,
                   ef, weights, perf, display, rf>>

\* lines 94-95: st.error(...)
Except ==
    /\ pc = "except"
    /\ display' = Append(display, "error")
    /\ pc' = "footer"
    /\ UNCHANGED <<tickers, risk_level, max_weight, pressed, data, stock_data, mu, S, nan,
                   ef, weights, perf, calls, rf>>

\* lines 97-103: the footer; the run is over
Footer ==
    /\ pc = "footer"
    /\ display' = Append(display, "footer")
    /\ pc' = "done"
    /\ UNCHANGED <<tickers, risk_level, max_weight, pressed, data, stock_data, mu, S, nan,
                   ef, weights, perf, calls, rf>>

Next ==
    \/ Rerun
    \/ ScriptRun
    \/ Button
    \/ Download
    \/ ForwardFill
    \/ BackwardFill
    \/ Estimate
    \/ Construct
    \/ Solve
    \/ Clean
    \/ RenderTable
    \/ RenderPie
    \/ Performance
    \/ RenderMetrics
    \/ RenderChart
    \/ Raise
    \/ Except
    \/ Footer

Spec == Init /\ [][Next]_vars

(***************************************************************************)
(* The gap fill on its own: the state after line 31 for every table of up  *)
(* to MaxFillAssets assets whose cells are missing or one of two prices,   *)
(* followed by lines 32 and 33.                                            *)
(***************************************************************************)
AllColumns == [Dates -> {0, 1, 2}]

InitFill ==
    /\ pc = "ffill"
    /\ \E k \in 1 .. MaxFillAssets :
          /\ tickers = SubSeq(Universe, 1, k)
          /\ data \in [Range(SubSeq(Universe, 1, k)) -> AllColumns]
    /\ stock_data = data
    /\ risk_level = "Medium"
    /\ max_weight = 40
    /\ pressed = TRUE
    /\ mu = Unset
    /\ S = Unset
    /\ nan = {}
    /\ ef = NoEf
    /\ weights = Unset
    /\ perf = Unset
    /\ display = <<>>
    /\ calls = <<"download">>
    /\ rf = 0

NextFill ==
    \/ ForwardFill
    \/ BackwardFill

SpecFill == InitFill /\ [][NextFill]_vars

(***************************************************************************)
(* Properties.                                                             *)
(***************************************************************************)
WeightSum(w) == SumOver(DOMAIN w, w)

HasWeights == DOMAIN weights # {}

HasPerf == DOMAIN perf # {}

ObjectiveNames == {"min_volatility", "max_sharpe", "max_quadratic_utility"}

IsObjective(c) == c \in ObjectiveNames

ResultElements == {"allocation_table", "pie_chart", "metrics_table", "price_chart"}

Count(seq, x) == Cardinality({i \in DOMAIN seq : seq[i] = x})

C2_NoSolverCallWhenInfeasible ==
    (pressed /\ Len(tickers) * max_weight < 100) =>
        \A i \in DOMAIN calls : ~IsObjective(calls[i])

\* C3 as stated: a run that failed shows exactly one failure message and no
\* element of a result, and made no call twice.
C3_SingleFailureNoPartialResult ==
    (pc = "done" /\ "error" \in Range(display)) =>
        /\ Count(display, "error") = 1
        /\ Range(display) \cap ResultElements = {}
        /\ \A i, j \in DOMAIN calls : calls[i] = calls[j] => i = j

\* C4: a run invokes at most one objective, the one its risk level selects (Low:
\* min_volatility, High: max_sharpe, Medium: max_quadratic_utility); a run that
\* has solver weights invoked exactly one; the risk level is one of the three.
C4_OneObjectivePerRun ==
    LET objs == SelectSeq(calls, IsObjective)
    IN /\ risk_level \in {"Low", "Medium", "High"}
       /\ Len(objs) <= 1
       /\ Len(objs) = 1 =>
             \/ risk_level = "Low" /\ objs[1] = "min_volatility"
             \/ risk_level = "High" /\ objs[1] = "max_sharpe"
             \/ risk_level = "Medium" /\ objs[1] = "max_quadratic_utility"
       /\ DOMAIN ef.weights # {} => Len(objs) = 1

\* C4 witness: a finished High run that called max_sharpe and shows its result.
C4_Witness ==
    /\ pc = "done"
    /\ risk_level = "High"
    /\ HasWeights
    /\ calls = <<"download", "mean_historical_return", "sample_cov", "max_sharpe",
                 "clean_weights", "portfolio_performance">>

\* C5 as stated: the reported scalars are those of the cleaned (displayed)
\* weights, and no Sharpe ratio is reported when the volatility is zero.
C5_PerformanceOfCleanedWeights ==
    HasPerf =>
        /\ perf.expected_return = PortfolioReturn(weights, mu)
        /\ perf.expected_volatility = PortfolioVolatility(weights, S)
        /\ perf.sharpe_ratio =
              SharpeRatio(PortfolioReturn(weights, mu), PortfolioVolatility(weights, S), rf)
        /\ perf.expected_volatility # 0

Retained == {t \in DOMAIN weights : Abs(ef.weights[t]) >= Cutoff}

VolatilitiesOf(level) ==
    {PortfolioVolatility(w, S) : w \in Solutions(level, tickers, ef.upper, mu, S, rf)}

\* C7: for the same estimates and bound, the volatility a Low run reports is at
\* most the volatility a feasible High run reports, and the volatility a High
\* run reports is at least the volatility a Low run reports.
C7_LowVolatilityAtMostHigh ==
    (HasPerf /\ pc = "render_metrics") =>
        /\ risk_level = "Low" =>
              \A v \in VolatilitiesOf("High") : perf.expected_volatility <= v
        /\ risk_level = "High" =>
              \A v \in VolatilitiesOf("Low") : v <= perf.expected_volatility

\* C7 witness: a Low run reported a volatility strictly below the one the High
\* objective reaches on the same estimates and bound.
C7_Witness ==
    /\ HasPerf
    /\ pc = "render_metrics"
    /\ risk_level = "Low"
    /\ \E v \in VolatilitiesOf("High") : perf.expected_volatility < v

Running == pc \notin {"idle", "done"}

C10_ButtonTriggersPipeline ==
    /\ (~pressed /\ pc # "idle") =>
          /\ calls = <<>>
          /\ Range(display) \subseteq {"footer"}
    /\ calls # <<>> => pressed
    /\ pc = "done" =>
          /\ Len(display) >= 1
          /\ display[Len(display)] = "footer"
          /\ Count(display, "footer") = 1
    /\ Running => "footer" \notin Range(display)

\* C10 witness: a finished run without a button press that shows the footer only.
C10_Witness ==
    /\ pc = "done"
    /\ ~pressed
    /\ display = <<"footer">>
    /\ calls = <<>>

====
